---- MODULE Spec2Model ----
(***************************************************************************)
(* Voice chat client: the press-to-record session controller (app.js, in   *)
(* its three builds), the SpeechRecognitionWrapper it drives, the browser  *)
(* speech recognition object behind the wrapper, and the transcribe /      *)
(* chat / speak pipeline that runs when a capture ends.                    *)
(*                                                                         *)
(* The browser runs one handler at a time.  Every action below is one      *)
(* handler (an event listener, a device callback, a timer callback or the  *)
(* continuation of an await), run from its entry to its first real         *)
(* suspension point.  An await on an already settled promise resumes in a  *)
(* microtask, before any other event, and is part of the same action.      *)
(*                                                                         *)
(* The handlers are written as functions from the world w (a record of     *)
(* all mutable objects) to the world after the call, so that a handler     *)
(* that calls another is the composition the source has.                   *)
(***************************************************************************)
EXTENDS Bags, FiniteSets, Integers, Sequences, TLC

\* ------------------------------------------------------------- bounds
\* Sessions the user may ask for in one run.
MaxSessions == 2
\* recognition.stop() calls the inputs may cause in one capture lifecycle.
MaxStops == 2

\* Readings of Date.now() (ms).  1299 and 1300 are 299 and 300 ms after
\* the first, 1050 is 50 ms after it, 1800 is 800 ms after it and 500 ms
\* after 1300.
Instants == {1000, 1050, 1299, 1300, 1800}

\* ------------------------------------------------------------- program constants
HOLD_MODE_THRESHOLD == 300
WATCHDOG_DELAY == 500
\* pressStartTime: null
NULL == -1

\* The builds of the controller: app.js 1-658 on a touch device and on a
\* desktop, app.js 660-1195 (handlePressStart not awaited), and the build
\* with an awaited handlePressStart and a click listener.
\* The languages the transcription can detect.
Languages == {"en", "ru"}

Controllers == {"touch", "desktop", "press", "pressAsync"}

VARIABLES
  env,     \* what the page was loaded with: the build of the controller
  now,     \* Date.now()
  input,   \* the listeners' closure flags: touchActive, spacePressed, handledPress
  app,     \* appState
  rec,     \* the SpeechRecognitionWrapper's fields
  tts,     \* the TextToSpeechWrapper's unlock flags
  ui,      \* status text, button class and button.disabled
  dev,     \* the browser's SpeechRecognition object
  timers,  \* pending setTimeout callbacks of stop()
  tasks,   \* suspended async functions, by what they await
  obs,     \* observations about the run (history variables, read by no handler)
  srv      \* the server behind the page: process.env and the request it handles

vars == <<env, now, input, app, rec, tts, ui, dev, timers, tasks, obs, srv>>

W == [app |-> app, rec |-> rec, tts |-> tts, ui |-> ui, dev |-> dev,
      timers |-> timers, tasks |-> tasks, obs |-> obs]

Commit(w) ==
  /\ app' = w.app
  /\ rec' = w.rec
  /\ tts' = w.tts
  /\ ui' = w.ui
  /\ dev' = w.dev
  /\ timers' = w.timers
  /\ tasks' = w.tasks
  /\ obs' = w.obs

\* An awaited call: its kind, the text it carries and, for the calls of a
\* turn, a language: for "chat" the value of appState.currentLanguage when
\* processUserMessage was entered, for "speak" the language passed to speak().
TaskL(k, text, lang) == [k |-> k, text |-> text, lang |-> lang]
Task(k, text) == TaskL(k, text, "none")
Suspend(w, t) == [w EXCEPT !.tasks = @ (+) SetToBag({t})]
Resume(w, t) == [w EXCEPT !.tasks = @ (-) SetToBag({t})]

\* ------------------------------------------------------------- UI helpers
updateStatus(w, message) ==
  [w EXCEPT !.ui.status = message,
            !.obs.listeningShown = @ \/ message = "Listening..."]

updateButtonState(w, state) ==
  [w EXCEPT !.ui.button = state,
            !.ui.disabled = IF state = "processing" THEN TRUE
                            ELSE IF state = "listening" THEN @
                            ELSE FALSE]

\* resetToIdle of app.js 511-520 (touch and desktop)
resetToIdleDevice(w) ==
  LET w1 == [w EXCEPT !.app.isProcessing = FALSE,
                      !.app.isListening = FALSE,
                      !.app.recordingRequested = FALSE]
  IN updateStatus(updateButtonState(w1, "idle"),
                  IF env.controller = "touch" THEN "Ready - Hold to talk"
                  ELSE "Ready - Click to toggle")

\* resetToIdle of app.js 1116-1125 (the same in the awaited build)
\* A variant of resetToIdle that also forgets that the key is held.
resetToIdlePressForgetsKey(w) ==
  LET w1 == [w EXCEPT !.app.isProcessing = FALSE,
                      !.app.isListening = FALSE,
                      !.app.recordingRequested = FALSE,
                      !.app.pressStartTime = NULL,
                      !.app.isHoldMode = FALSE,
                      !.app.shouldStopOnRelease = FALSE,
                      !.app.spaceKeyPressed = FALSE]
  IN updateStatus(updateButtonState(w1, "idle"),
                  "Ready - Tap to toggle or hold to talk")

resetToIdlePress(w) ==
  LET w1 == [w EXCEPT !.app.isProcessing = FALSE,
                      !.app.isListening = FALSE,
                      !.app.recordingRequested = FALSE,
                      !.app.pressStartTime = NULL,
                      !.app.isHoldMode = FALSE,
                      !.app.shouldStopOnRelease = FALSE]
  IN updateStatus(updateButtonState(w1, "idle"),
                  "Ready - Tap to toggle or hold to talk")

resetToIdle(w) ==
  IF env.controller \in {"touch", "desktop"} THEN resetToIdleDevice(w)
  ELSE resetToIdlePress(w)


\* ------------------------------------------------------------- the browser's SpeechRecognition
\* A capture lifecycle is open from an accepted recognition.start() until the
\* end event.  The object is driven only through start(), stop() and abort().
DevOpen(w) == w.dev.state # "idle"

\* recognition.start() on an idle object: a new lifecycle begins.
recognitionStarted(w) ==
  [w EXCEPT !.dev.state = "starting",
            !.dev.lifecycle = @ + 1,
            !.obs.devStops = 0,
            !.obs.latched = FALSE,
            !.obs.aborted = FALSE,
            !.obs.listeningShown = FALSE]

\* recognition.stop(): the capture is asked to finish and deliver what it has.
recognitionStop(w) ==
  [w EXCEPT !.dev.state = IF @ \in {"starting", "active"} THEN "stopping" ELSE @,
            !.obs.devStops = @ + 1]

\* recognition.abort(): the capture is asked to end without a result.
recognitionAbort(w) ==
  [w EXCEPT !.dev.state = IF @ # "idle" THEN "aborting" ELSE @,
            !.obs.aborted = TRUE]

\* ------------------------------------------------------------- SpeechRecognitionWrapper
\* start(), lines 202-224: the try block around recognition.start().  The
\* device throws InvalidStateError when a lifecycle is already open; the
\* catch block clears isStarting and start() resolves false.
startRecognition(w) ==
  LET w1 == [w EXCEPT !.rec.isStarting = TRUE,
                      !.rec.pendingStop = FALSE,
                      !.rec.collectedTranscript = 0]
  IN IF ~DevOpen(w1)
     THEN [world |-> recognitionStarted(w1), started |-> "true"]
     ELSE [world |-> [w1 EXCEPT !.rec.isStarting = FALSE,
                                !.obs.rejectedStarts = @ + 1],
           started |-> "false"]

\* start(), lines 174-200: up to the await of navigator.permissions.query.
\* started is "false", or "pending" while the query is awaited.  (The
\* browser has navigator.permissions.  Without it start() goes on at once,
\* which is the run in which the query is answered before any other event.)
start(w) ==
  IF w.rec.isRecording \/ w.rec.isStarting
  THEN [world |-> w, started |-> "false"]
  ELSE [world |-> Suspend(w, Task("permission", 0)), started |-> "pending"]

\* The first reading of the clock at which a timer due at `due` is seen to
\* have expired (Never when the run's readings end before).  A timer due at
\* `due` and one due at Reading(due) fire at the same readings.
Never == 0
Reading(due) ==
  IF \E t \in Instants : t >= due
  THEN CHOOSE t \in Instants : t >= due /\ \A u \in Instants : u >= due => t <= u
  ELSE Never

\* The force reset of stop(), lines 253-265, run by the timer.
forceStop(w) ==
  IF w.rec.isRecording \/ w.rec.isStarting
  THEN recognitionAbort([w EXCEPT !.rec.isRecording = FALSE,
                                  !.rec.isStarting = FALSE,
                                  !.rec.pendingStop = FALSE])
  ELSE w

\* stop(), lines 230-277.  recognition.stop() does not throw, so the catch
\* block of lines 266-276 is never entered.
stop(w) ==
  LET w0 == [w EXCEPT !.obs.stopTick = ~@]
  IN IF w0.rec.isStarting
     THEN [w0 EXCEPT !.rec.pendingStop = TRUE,
                     !.obs.latched = TRUE]
     ELSE IF ~w0.rec.isRecording
     THEN w0
     ELSE [recognitionStop(w0) EXCEPT
             !.timers = @ (+) SetToBag({[due |-> Reading(now + WATCHDOG_DELAY),
                                         lc |-> w0.dev.lifecycle]})]

\* ------------------------------------------------------------- the pipeline
\* A variant of the push that puts the entry at the front of the history.
Unshift(w, role, content) ==
  [w EXCEPT !.app.conversationHistory = <<[role |-> role, content |-> content]>> \o @]

Push(w, role, content) ==
  [w EXCEPT !.app.conversationHistory = Append(@, [role |-> role, content |-> content])]

\* addMessageToUI: a bubble is appended to the conversation on the screen.
\* `apology` tells the 'Sorry, I encountered an error: ...' text from a reply.
addMessageToUI(w, role, content) ==
  [w EXCEPT !.ui.conversation = Append(@, [role |-> role, content |-> content,
                                           apology |-> FALSE])]

\* addMessageToUI('assistant', `Sorry, I encountered an error: ...`)
addApologyToUI(w) ==
  [w EXCEPT !.ui.conversation = Append(@, [role |-> "assistant", content |-> 0,
                                           apology |-> TRUE])]

\* processUserMessage up to the await of API.sendMessageToClaude
processUserMessage(w, message) ==
  Suspend(updateStatus(updateButtonState([w EXCEPT !.app.isProcessing = TRUE],
                                         "processing"),
                       "Processing..."),
          TaskL("chat", message, w.app.currentLanguage))

\* onResult of app.js 742-761: the transcript goes straight to the chat step
onResultTranscript(w, transcript) ==
  IF transcript = 0
  THEN resetToIdle(updateStatus(w, "No speech detected. Try again."))
  ELSE processUserMessage(Push(addMessageToUI(w, "user", transcript),
                               "user", transcript),
                          transcript)

\* onResult of app.js 113-160 up to the await of API.transcribeAudio.  The
\* wrapper passes a string, whose size is undefined, so only the empty
\* string takes the first branch.
onResultAudio(w, audioBlob) ==
  IF audioBlob = 0
  THEN resetToIdle(updateStatus(w, "No audio captured. Try again."))
  ELSE Suspend(updateStatus(updateButtonState(w, "processing"),
                            "Transcribing audio..."),
               Task("transcribe", audioBlob))

onResult(w, text) ==
  IF env.controller = "press" THEN onResultTranscript(w, text)
  ELSE onResultAudio(w, text)

\* onResult of app.js 128-159 after the await: the transcription came back
\* with a transcript ("ok"), with an empty one ("empty"), or was rejected.
transcribed(w, audioBlob, outcome, language) ==
  LET w1 == [w EXCEPT !.app.currentLanguage = language]
  IN IF outcome = "ok"
     THEN processUserMessage(Push(addMessageToUI(w1, "user", audioBlob),
                                  "user", audioBlob),
                             audioBlob)
     ELSE IF outcome = "empty"
     THEN resetToIdle(updateStatus(w1, "No speech detected. Try again."))
     ELSE resetToIdle(updateStatus(w, "Transcription error"))

\* A variant of the step after the chat call whose catch block also pushes
\* the apology to the history.
repliedPushesApology(w, message, outcome, silent) ==
  IF outcome = "ok"
  THEN LET w1 == addMessageToUI(Push([w EXCEPT !.obs.silent = silent],
                                     "assistant", message),
                                "assistant", message)
       IN IF silent \/ env.controller = "press"
          THEN resetToIdle(updateStatus(w1, "Ready"))
          ELSE Suspend(IF env.controller = "pressAsync" THEN w1
                       ELSE updateStatus(w1, "Playing audio..."),
                       TaskL("speak", message, w.app.currentLanguage))
  ELSE resetToIdle(addApologyToUI(Push(updateStatus(w, "Error"), "assistant", 0)))

\* A variant of the step after the chat call that speaks the reply whatever
\* the silent-mode preference says.
repliedSpeaksAlways(w, message, outcome, silent) ==
  IF outcome = "ok"
  THEN LET w1 == addMessageToUI(Push([w EXCEPT !.obs.silent = silent],
                                     "assistant", message),
                                "assistant", message)
       IN IF env.controller = "press"
          THEN resetToIdle(updateStatus(w1, "Ready"))
          ELSE Suspend(IF env.controller = "pressAsync" THEN w1
                       ELSE updateStatus(w1, "Playing audio..."),
                       TaskL("speak", message, w.app.currentLanguage))
  ELSE resetToIdle(addApologyToUI(updateStatus(w, "Error")))

\* processUserMessage after the chat call: the reply is appended and, unless
\* silent mode is on, spoken.  Only the builds that await speak() suspend.
replied(w, message, outcome, silent) ==
  IF outcome = "ok"
  THEN LET w1 == addMessageToUI(Push([w EXCEPT !.obs.silent = silent],
                                     "assistant", message),
                                "assistant", message)
       IN IF silent \/ env.controller = "press"
          THEN resetToIdle(updateStatus(w1, "Ready"))
          ELSE Suspend(IF env.controller = "pressAsync" THEN w1
                       ELSE updateStatus(w1, "Playing audio..."),
                       TaskL("speak", message, w.app.currentLanguage))
  ELSE resetToIdle(addApologyToUI(updateStatus(w, "Error")))

\* A variant of the step after speak() that lacks the finally block.
spokenWithoutFinally(w, outcome) == updateStatus(w, "Ready")

\* A variant of the step after speak() without the try block of app.js
\* 417-428: a failure of speak() reaches the catch block of the turn.
spokenUncaught(w, outcome) ==
  LET w1 == [w EXCEPT !.obs.spoke = outcome]
  IN IF outcome = "ok"
     THEN resetToIdle(updateStatus(w1, "Ready"))
     ELSE resetToIdle(addApologyToUI(updateStatus(w1, "Error")))

\* processUserMessage after the await of speak().  app.js 417-428 catches a
\* failure of speak(); the awaited build lets it reach the outer catch.
spoken(w, outcome) ==
  LET w1 == [w EXCEPT !.obs.spoke = outcome]
  IN IF outcome = "ok" \/ env.controller # "pressAsync"
     THEN resetToIdle(updateStatus(w1, "Ready"))
     ELSE resetToIdle(addApologyToUI(updateStatus(w1, "Error")))

\* ------------------------------------------------------------- the controller's callbacks
onStart(w) ==
  updateStatus(updateButtonState([w EXCEPT !.app.isListening = TRUE], "listening"),
               "Listening...")

onError(w, error) ==
  resetToIdle(updateStatus([w EXCEPT !.app.recordingRequested = FALSE],
                           IF error = "no-speech"
                                THEN IF env.controller = "press"
                                     THEN "Error: No speech detected"
                                     ELSE "Error: No speech detected - speak immediately after pressing"
                           ELSE IF error = "audio-capture" THEN "Error: No microphone found"
                           ELSE IF error = "not-allowed" THEN "Error: Microphone permission denied"
                           ELSE IF error = "aborted" /\ env.controller # "press"
                                THEN "Error: Recording aborted"
                           ELSE "Error: Speech recognition failed"))

onEnd(w) ==
  [w EXCEPT !.app.isListening = FALSE,
            !.app.recordingRequested = FALSE]

\* ------------------------------------------------------------- the wrapper's device listeners
\* recognition.onstart, lines 43-61
onstart(w) ==
  LET w1 == [w EXCEPT !.rec.isStarting = FALSE,
                      !.rec.isRecording = TRUE,
                      !.rec.collectedTranscript = 0]
  IN IF w1.rec.pendingStop
     THEN recognitionStop([w1 EXCEPT !.rec.pendingStop = FALSE])
     ELSE onStart(w1)

\* A variant of onresult that hands each final result to the controller as
\* it arrives, besides keeping it for onend.
onresultDelivers(w, finalTranscript) ==
  onResult([w EXCEPT !.rec.collectedTranscript = finalTranscript], finalTranscript)

\* recognition.onresult, lines 63-99, for an event with a final result
onresult(w, finalTranscript) ==
  [w EXCEPT !.rec.collectedTranscript = finalTranscript]

\* recognition.onerror, lines 101-138
onerror(w, error) ==
  onError([w EXCEPT !.rec.isRecording = FALSE,
                    !.rec.isStarting = FALSE,
                    !.rec.pendingStop = FALSE],
          error)

\* recognition.onend, lines 140-168
onend(w) ==
  LET w1 == [w EXCEPT !.rec.isRecording = FALSE,
                      !.rec.isStarting = FALSE,
                      !.rec.pendingStop = FALSE]
      finalText == w1.rec.collectedTranscript
      w2 == IF finalText # 0 THEN onResult(w1, finalText) ELSE w1
  IN [onEnd(w2) EXCEPT !.rec.collectedTranscript = 0]


\* ------------------------------------------------------------- audio unlock
\* unlockIOSAudio, textToSpeech.js 51-60
unlockIOSAudio(w) ==
  IF w.tts.iosUnlocked THEN w
  ELSE [w EXCEPT !.tts.iosUnlocked = TRUE]

\* unlockAudioPlayback, textToSpeech.js 116-129: after the await of
\* audio.play(), which resolved ("ok") or was rejected
unlocked(w, outcome) ==
  IF outcome = "ok"
  THEN unlockIOSAudio([w EXCEPT !.tts.audioUnlocked = TRUE])
  ELSE unlockIOSAudio(w)

\* ------------------------------------------------------------- controller, app.js 1-658
\* What follows `await appState.speechRecognition.start()` in
\* handleMobileStart (328-336), handleDesktopStart (376-384) and the awaited
\* handlePressStart.  app.js 945 does not await: `started` is a promise,
\* which is never falsy, and nothing follows.
\* A variant of what follows start() that reports a failed start through
\* the error callback.
afterStartCallsOnError(w, started) ==
  IF env.controller = "press" THEN w
  ELSE IF started = "false" THEN onError(w, "not-allowed")
  ELSE updateStatus(w, IF env.controller = "touch" THEN "Hold and speak!"
                       ELSE IF env.controller = "desktop" THEN "Recording - click to stop"
                       ELSE "Listening - speak now!")

afterStart(w, started) ==
  IF env.controller = "press" THEN w
  ELSE IF started = "false"
  THEN LET w1 == updateButtonState(
                   [updateStatus(w, "Failed to start - check microphone")
                      EXCEPT !.app.recordingRequested = FALSE], "idle")
       IN IF env.controller = "pressAsync"
          THEN [w1 EXCEPT !.app.pressStartTime = NULL]
          ELSE w1
  ELSE updateStatus(w, IF env.controller = "touch" THEN "Hold and speak!"
                       ELSE IF env.controller = "desktop" THEN "Recording - click to stop"
                       ELSE "Listening - speak now!")

\* A call of start() and what the caller does with its result, as far as
\* it gets before the permission query suspends it.
callStart(w) ==
  LET r == start(w)
  IN IF r.started = "pending" THEN r.world ELSE afterStart(r.world, r.started)

\* handleMobileStart, app.js 317-337, after the await of the unlock
mobileStartUnlocked(w) ==
  IF w.app.isProcessing \/ w.app.isListening THEN w
  ELSE callStart(updateStatus(updateButtonState(
                   [w EXCEPT !.app.recordingRequested = TRUE], "listening"),
                   "Requesting microphone..."))

\* handleDesktopStart, app.js 366-385, after the await of the unlock
desktopStartUnlocked(w) ==
  IF w.app.isProcessing THEN w
  ELSE callStart(updateStatus(updateButtonState(
                   [w EXCEPT !.app.recordingRequested = TRUE], "listening"),
                   "Requesting microphone..."))

startUnlocked(w) ==
  IF env.controller = "touch" THEN mobileStartUnlocked(w)
  ELSE desktopStartUnlocked(w)

\* A variant of the start handlers that sets the unlock flag when the probe
\* is started, before play() has settled.
handleDeviceStartSetsFlag(w) ==
  LET w1 == [w EXCEPT !.obs.attempts = @ + 1]
  IN IF w1.tts.audioUnlocked THEN startUnlocked(w1)
     ELSE Suspend([w1 EXCEPT !.tts.audioUnlocked = TRUE], Task("unlock", 0))

\* handleMobileStart / handleDesktopStart up to the await of
\* unlockAudioPlayback(), which returns at once when the audio is unlocked.
handleDeviceStart(w) ==
  LET w1 == [w EXCEPT !.obs.attempts = @ + 1]
  IN IF w1.tts.audioUnlocked THEN startUnlocked(w1)
     ELSE Suspend(w1, Task("unlock", 0))

\* handleMobileEnd, app.js 342-348
handleMobileEnd(w) ==
  IF w.app.isListening \/ w.app.recordingRequested THEN stop(w) ELSE w

\* The toggle of the desktop click listener, app.js 242-249
clickToggle(w) ==
  IF w.app.isListening \/ w.app.recordingRequested
  THEN [stop(w) EXCEPT !.app.shouldStopOnRelease = FALSE]
  ELSE IF ~w.app.isProcessing THEN handleDeviceStart(w)
  ELSE w

\* The toggle of the desktop keydown listener, app.js 279-285
keyToggle(w) ==
  IF w.app.isListening \/ w.app.recordingRequested THEN stop(w)
  ELSE IF ~w.app.isProcessing THEN handleDeviceStart(w)
  ELSE w

\* ------------------------------------------------------------- controller, app.js 660-1195
\* handlePressStart as it would be if the second press stopped the session
\* itself instead of marking it (stop() in the branch of lines 929-933).
handlePressStartStopsAtOnce(w, source) ==
  LET w1 == [unlockIOSAudio(w) EXCEPT !.obs.press = "again",
                                      !.obs.pressedAt = NULL]
  IN IF w1.app.isProcessing THEN w1
     ELSE LET w2 == [w1 EXCEPT !.app.pressStartTime = now]
          IN IF w2.app.recordingRequested \/ w2.app.isListening
             THEN stop(w2)
             ELSE callStart(updateStatus(updateButtonState(
                    [w2 EXCEPT !.app.recordingRequested = TRUE,
                               !.app.isHoldMode = FALSE,
                               !.app.shouldStopOnRelease = FALSE,
                               !.obs.attempts = @ + 1,
                               !.obs.press = "starter",
                               !.obs.pressedAt = now],
                    "listening"),
                    IF env.controller = "press" THEN "Starting..."
                    ELSE "Requesting microphone..."))

\* handlePressStart as it would be if line 929 tested isListening alone: a
\* press while the start is still requested would ask for the start again.
handlePressStartListeningOnly(w, source) ==
  LET w1 == [unlockIOSAudio(w) EXCEPT !.obs.press = "again",
                                      !.obs.pressedAt = NULL]
  IN IF w1.app.isProcessing THEN w1
     ELSE LET w2 == [w1 EXCEPT !.app.pressStartTime = now]
          IN IF w2.app.isListening
             THEN [w2 EXCEPT !.app.shouldStopOnRelease = TRUE]
             ELSE callStart(updateStatus(updateButtonState(
                    [w2 EXCEPT !.app.recordingRequested = TRUE,
                               !.app.isHoldMode = FALSE,
                               !.app.shouldStopOnRelease = FALSE,
                               !.obs.attempts = @ + 1,
                               !.obs.press = "starter",
                               !.obs.pressedAt = now],
                    "listening"),
                    IF env.controller = "press" THEN "Starting..."
                    ELSE "Requesting microphone..."))

\* handlePressStart, app.js 908-954 (and the awaited build, which differs in
\* the status text and in what follows start())
handlePressStart(w, source) ==
  LET w1 == [unlockIOSAudio(w) EXCEPT !.obs.press = "again",
                                      !.obs.pressedAt = NULL]
  IN IF w1.app.isProcessing THEN w1
     ELSE LET w2 == [w1 EXCEPT !.app.pressStartTime = now]
          IN IF w2.app.recordingRequested \/ w2.app.isListening
             THEN [w2 EXCEPT !.app.shouldStopOnRelease = TRUE]
             ELSE callStart(updateStatus(updateButtonState(
                    [w2 EXCEPT !.app.recordingRequested = TRUE,
                               !.app.isHoldMode = FALSE,
                               !.app.shouldStopOnRelease = FALSE,
                               !.obs.attempts = @ + 1,
                               !.obs.press = "starter",
                               !.obs.pressedAt = now],
                    "listening"),
                    IF env.controller = "press" THEN "Starting..."
                    ELSE "Requesting microphone..."))

\* handlePressEnd, app.js 960-1007
handlePressEnd(w, source) ==
  LET w1 == [w EXCEPT !.obs.press = "none",
                      !.obs.pressedAt = NULL]
  IN IF ~w1.app.recordingRequested /\ ~w1.app.isListening
     THEN [w1 EXCEPT !.app.pressStartTime = NULL,
                     !.app.shouldStopOnRelease = FALSE]
     ELSE IF w1.app.shouldStopOnRelease
     THEN [stop(w1) EXCEPT !.app.shouldStopOnRelease = FALSE,
                           !.app.pressStartTime = NULL]
     ELSE LET holdDuration == IF w1.app.pressStartTime # NULL /\ w1.app.pressStartTime # 0
                              THEN now - w1.app.pressStartTime ELSE 0
          IN IF holdDuration >= HOLD_MODE_THRESHOLD
             THEN [stop([w1 EXCEPT !.app.isHoldMode = TRUE])
                     EXCEPT !.app.pressStartTime = NULL]
             ELSE [w1 EXCEPT !.app.isHoldMode = FALSE,
                             !.app.pressStartTime = NULL]

\* ============================================================= the server
\* The Express application behind the page: the basicAuth middleware
\* (middleware/auth) that app.use puts in front of the static files and of
\* the /api routes, and the error handler behind them.
\*
\* Text is a sequence of character codes; the three characters are enough to
\* tell a separator from the rest.
Colon == 58
Chars == {97, 98, Colon}

\* The longest credentials text a request carries: 5 characters hold two
\* separators with a character on each side of them.
MaxText == 5
Texts == UNION {[1..n -> Chars] : n \in 0..MaxText}

\* The padding character of base64, after the 64 digits 0..63.
Pad == 64

\* What a client does to put credentials text in the header: base64 of its
\* bytes, three bytes to four digits, padded at the end.
RECURSIVE toBase64(_)
toBase64(bytes) ==
  IF Len(bytes) = 0 THEN << >>
  ELSE IF Len(bytes) = 1
  THEN LET n == bytes[1] * 65536
       IN <<n \div 262144, (n \div 4096) % 64, Pad, Pad>>
  ELSE IF Len(bytes) = 2
  THEN LET n == bytes[1] * 65536 + bytes[2] * 256
       IN <<n \div 262144, (n \div 4096) % 64, (n \div 64) % 64, Pad>>
  ELSE LET n == bytes[1] * 65536 + bytes[2] * 256 + bytes[3]
       IN <<n \div 262144, (n \div 4096) % 64, (n \div 64) % 64, n % 64>>
          \o toBase64(SubSeq(bytes, 4, Len(bytes)))

\* Buffer.from(payload, 'base64').toString(): the digits up to the padding,
\* four digits to three bytes; a last group of three digits gives two bytes,
\* of two digits one byte, and a single digit none.
RECURSIVE fromBase64(_)
fromBase64(digits) ==
  IF Len(digits) < 2 \/ digits[1] = Pad \/ digits[2] = Pad THEN << >>
  ELSE LET b1 == (digits[1] * 4 + digits[2] \div 16) % 256
       IN IF Len(digits) = 2 \/ digits[3] = Pad THEN <<b1>>
          ELSE LET b2 == ((digits[2] % 16) * 16 + digits[3] \div 4) % 256
               IN IF Len(digits) = 3 \/ digits[4] = Pad THEN <<b1, b2>>
                  ELSE <<b1, b2, ((digits[3] % 4) * 64 + digits[4]) % 256>>
                       \o fromBase64(SubSeq(digits, 5, Len(digits)))

\* String.prototype.split(':'): the fields between the separators.
RECURSIVE split(_)
split(text) ==
  IF \A i \in 1..Len(text) : text[i] # Colon THEN <<text>>
  ELSE LET k == CHOOSE i \in 1..Len(text) :
                  text[i] = Colon /\ \A j \in 1..(i - 1) : text[j] # Colon
       IN <<SubSeq(text, 1, k - 1)>> \o split(SubSeq(text, k + 1, Len(text)))

\* The Authorization header of a request, as authHeader.split(' ') sees it:
\* absent (or empty), a scheme alone, or a scheme and a payload.
NoHeader == [given |-> FALSE, scheme |-> "", token |-> FALSE, payload |-> << >>]
Schemes == {"Basic", "Bearer"}
\* Payloads no encoder produces: a lone digit, and two digits without padding.
Malformed == {<<24>>, <<24, 22>>}
Headers ==
  {NoHeader}
  \cup {[given |-> TRUE, scheme |-> s, token |-> FALSE, payload |-> << >>] : s \in Schemes}
  \cup {[given |-> TRUE, scheme |-> s, token |-> TRUE, payload |-> p] :
          s \in Schemes, p \in {toBase64(t) : t \in Texts} \cup Malformed}

\* process.env.AUTH_USERNAME and AUTH_PASSWORD: unset (empty) or set; a
\* password may hold the separator.
Usernames == {<< >>, <<97>>}
Passwords == {<< >>, <<98>>, <<98, Colon, 97>>}

\* The server with no request in hand.
Server(authUsername, authPassword) ==
  [AUTH_USERNAME |-> authUsername, AUTH_PASSWORD |-> authPassword,
   authorization |-> NoHeader, stage |-> "idle", status |-> 0]

\* requestAuth, lines 42-45
requestAuth(s) == [s EXCEPT !.stage = "answered", !.status = 401]

\* errorHandler: the answer to a request whose middleware threw
errorHandler(s) == [s EXCEPT !.stage = "answered", !.status = 500]

\* next(): the request goes on to express.static and to the /api routes
next(s) == [s EXCEPT !.stage = "routes"]

\* basicAuth, lines 5-37.  Buffer.from(undefined, 'base64') throws when the
\* header has no second token, and Express hands the error to errorHandler;
\* auth[1] is undefined, and equal to no password, when the text has no
\* separator.
basicAuth(s) ==
  LET authUsername == s.AUTH_USERNAME
      authPassword == s.AUTH_PASSWORD
      authHeader == s.authorization
  IN IF authUsername = << >> \/ authPassword = << >> THEN next(s)
     ELSE IF ~authHeader.given THEN requestAuth(s)
     ELSE IF ~authHeader.token THEN errorHandler(s)
     ELSE LET auth == split(fromBase64(authHeader.payload))
          IN IF auth[1] = authUsername /\ Len(auth) >= 2 /\ auth[2] = authPassword
             THEN next(s)
             ELSE requestAuth(s)

\* ------------------------------------------------------------- the run
\* The user's inputs are bounded: an input is taken only if it leaves the
\* count of sessions asked for, and of stops that reached the device in the
\* open lifecycle, within the bounds.
Bounded(w) ==
  /\ w.obs.attempts <= MaxSessions
  /\ w.obs.devStops <= MaxStops

ReadyText(c) ==
  IF c = "touch" THEN "Ready - Hold to talk"
  ELSE IF c = "desktop" THEN "Ready - Click to toggle"
  ELSE "Ready - Tap to toggle or hold to talk"

PageLoaded(c) ==
  /\ env = [controller |-> c]
  /\ now = 1000
  /\ input = [touchActive |-> FALSE, spacePressed |-> FALSE, handledPress |-> FALSE]
  /\ app = [conversationHistory |-> << >>,
            isListening |-> FALSE,
            isProcessing |-> FALSE,
            spaceKeyPressed |-> FALSE,
            recordingRequested |-> FALSE,
            pressStartTime |-> NULL,
            isHoldMode |-> FALSE,
            shouldStopOnRelease |-> FALSE,
            currentLanguage |-> "en"]
  /\ rec = [collectedTranscript |-> 0,
            isRecording |-> FALSE,
            isStarting |-> FALSE,
            pendingStop |-> FALSE]
  /\ tts = [iosUnlocked |-> FALSE, audioUnlocked |-> FALSE]
  /\ ui = [status |-> ReadyText(env.controller), button |-> "idle", disabled |-> FALSE,
           conversation |-> << >>]
  /\ dev = [state |-> "idle", lifecycle |-> 0]
  /\ timers = EmptyBag
  /\ tasks = EmptyBag
  /\ obs = [attempts |-> 0, rejectedStarts |-> 0, devStops |-> 0,
            latched |-> FALSE, aborted |-> FALSE, listeningShown |-> FALSE,
            stopTick |-> FALSE, press |-> "none", pressedAt |-> NULL,
            spoke |-> "none", silent |-> FALSE]

\* The page as loaded, served by a server that is not asked anything more.
Start(c) == PageLoaded(c) /\ srv = Server(<< >>, << >>)

Init == \E c \in Controllers : Start(c)

Input(w) ==
  /\ Bounded(w)
  /\ Commit(w)
  /\ UNCHANGED <<env, now, srv>>

\* --- time
\* The clock is read again only while a reading is awaited: a press is timed
\* or a timer is running.
Tick ==
  /\ \/ app.pressStartTime # NULL
     \/ \E t \in BagToSet(timers) : t.due # Never /\ t.due > now
  /\ \E t \in Instants : t > now /\ now' = t
  /\ UNCHANGED <<env, input, app, rec, tts, ui, dev, timers, tasks, obs, srv>>

\* --- touch device, app.js 211-233
TouchStart ==
  /\ env.controller = "touch"
  /\ ~(input.touchActive \/ app.isProcessing)
  /\ input' = [input EXCEPT !.touchActive = TRUE]
  /\ Input(handleDeviceStart(W))

TouchEnd ==
  /\ env.controller = "touch"
  /\ input.touchActive
  /\ input' = [input EXCEPT !.touchActive = FALSE]
  /\ Input(handleMobileEnd(W))

\* --- desktop, app.js 237-250 and 264-295
DesktopClick ==
  /\ env.controller = "desktop"
  /\ ~ui.disabled
  /\ UNCHANGED input
  /\ Input(clickToggle(W))

DesktopKeyDown ==
  /\ env.controller = "desktop"
  /\ ~input.spacePressed
  /\ input' = [input EXCEPT !.spacePressed = TRUE]
  /\ Input(keyToggle(W))

DesktopKeyUp ==
  /\ env.controller = "desktop"
  /\ input.spacePressed
  /\ input' = [input EXCEPT !.spacePressed = FALSE]
  /\ UNCHANGED <<env, now, app, rec, tts, ui, dev, timers, tasks, obs, srv>>

\* --- app.js 808-856: mousedown, pointerdown and touchstart share one body,
\* and so do mouseup, pointerup and touchend.  A disabled button gets no
\* mouse events.
ButtonDown ==
  /\ env.controller = "press"
  /\ \E ev \in {"mousedown", "pointerdown", "touchstart"} :
       /\ ev = "mousedown" => ~ui.disabled
       /\ Input(handlePressStart(W, "button"))
  /\ UNCHANGED input

ButtonUp ==
  /\ env.controller = "press"
  /\ \E ev \in {"mouseup", "pointerup", "touchend"} :
       /\ ev = "mouseup" => ~ui.disabled
       /\ Input(handlePressEnd(W, "button"))
  /\ UNCHANGED input

\* app.js 822-828
ButtonLeave ==
  /\ env.controller = "press"
  /\ ~ui.disabled
  /\ app.isHoldMode \/ app.recordingRequested
  /\ Input(handlePressEnd(W, "button"))
  /\ UNCHANGED input

\* --- app.js 872-901 (the same in the awaited build)
SpaceDown ==
  /\ env.controller \in {"press", "pressAsync"}
  /\ ~app.spaceKeyPressed
  /\ Input(handlePressStart([W EXCEPT !.app.spaceKeyPressed = TRUE], "space"))
  /\ UNCHANGED input

SpaceUp ==
  /\ env.controller \in {"press", "pressAsync"}
  /\ app.spaceKeyPressed
  /\ Input(handlePressEnd([W EXCEPT !.app.spaceKeyPressed = FALSE], "space"))
  /\ UNCHANGED input

\* --- the awaited build's listeners: click toggles, mousedown and touchstart
\* share handledPress with mouseup, touchend and mouseleave
AsyncClick ==
  /\ env.controller = "pressAsync"
  /\ ~ui.disabled
  /\ Input(IF app.recordingRequested \/ app.isListening
           THEN handlePressEnd(W, "button-click")
           ELSE handlePressStart(W, "button-click"))
  /\ UNCHANGED input

AsyncDown ==
  /\ env.controller = "pressAsync"
  /\ ~input.handledPress
  /\ \E ev \in {"mousedown", "touchstart"} :
       /\ ev = "mousedown" => ~ui.disabled
       /\ Input(handlePressStart(W, ev))
  /\ input' = [input EXCEPT !.handledPress = TRUE]

AsyncUp ==
  /\ env.controller = "pressAsync"
  /\ input.handledPress
  /\ \E ev \in {"mouseup", "touchend"} :
       /\ ev = "mouseup" => ~ui.disabled
       /\ Input(handlePressEnd(W, ev))
  /\ input' = [input EXCEPT !.handledPress = FALSE]

AsyncLeave ==
  /\ env.controller = "pressAsync"
  /\ ~ui.disabled
  /\ input.handledPress
  /\ input' = [input EXCEPT !.handledPress = FALSE]
  /\ Input(IF app.isHoldMode \/ app.recordingRequested
           THEN handlePressEnd(W, "button-mouse")
           ELSE W)

\* --- continuations
\* audio.play() of the unlock settles; the start handler goes on
AudioUnlocked ==
  /\ BagIn(Task("unlock", 0), tasks)
  /\ \E outcome \in {"ok", "rejected"} :
       Commit(startUnlocked(unlocked(Resume(W, Task("unlock", 0)), outcome)))
  /\ UNCHANGED <<env, now, input, srv>>

\* navigator.permissions.query settles; start() goes on (lines 189-224)
PermissionAnswered ==
  /\ BagIn(Task("permission", 0), tasks)
  /\ \E state \in {"granted", "denied"} :
       LET w == Resume(W, Task("permission", 0))
           r == IF state = "denied" THEN [world |-> w, started |-> "false"]
                ELSE startRecognition(w)
       IN Commit(afterStart(r.world, r.started))
  /\ UNCHANGED <<env, now, input, srv>>

Transcribed ==
  /\ \E t \in BagToSet(tasks) :
       /\ t.k = "transcribe"
       /\ \E outcome \in {"ok", "empty", "rejected"}, language \in Languages :
            Commit(transcribed(Resume(W, t), t.text, outcome, language))
  /\ UNCHANGED <<env, now, input, srv>>

Replied ==
  /\ \E t \in BagToSet(tasks) :
       /\ t.k = "chat"
       /\ \E outcome \in {"ok", "rejected"}, silent \in BOOLEAN :
            Commit(replied(Resume(W, t), t.text, outcome, silent))
  /\ UNCHANGED <<env, now, input, srv>>

Spoken ==
  /\ \E t \in BagToSet(tasks) :
       /\ t.k = "speak"
       /\ \E outcome \in {"ok", "rejected"} :
            Commit(spoken(Resume(W, t), outcome))
  /\ UNCHANGED <<env, now, input, srv>>

\* --- the timer of stop()
Watchdog ==
  /\ \E t \in BagToSet(timers) :
       /\ t.due # Never /\ t.due <= now
       /\ Commit(forceStop([W EXCEPT !.timers = @ (-) SetToBag({t})]))
  /\ UNCHANGED <<env, now, input, srv>>

\* --- the device's events
DeviceStarted ==
  /\ dev.state = "starting"
  /\ Commit(onstart([W EXCEPT !.dev.state = "active"]))
  /\ UNCHANGED <<env, now, input, srv>>

DeviceResult ==
  /\ dev.state \in {"active", "stopping"}
  /\ rec.collectedTranscript # dev.lifecycle
  /\ Commit(onresult(W, dev.lifecycle))
  /\ UNCHANGED <<env, now, input, srv>>

DeviceError ==
  /\ dev.state \in {"starting", "active", "stopping", "aborting"}
  /\ \E error \in {"no-speech", "audio-capture", "not-allowed", "network", "aborted"} :
       /\ error = "aborted" <=> dev.state = "aborting"
       /\ Commit(onerror([W EXCEPT !.dev.state = "ending"], error))
  /\ UNCHANGED <<env, now, input, srv>>

DeviceEnded ==
  /\ dev.state \in {"active", "stopping", "aborting", "ending"}
  /\ Commit(onend([W EXCEPT !.dev.state = "idle"]))
  /\ UNCHANGED <<env, now, input, srv>>

\* ------------------------------------------------------------- the server's run
\* --- a request arrives, goes through app.use(basicAuth), and is served
RequestArrives ==
  /\ srv.stage \in {"idle", "answered"}
  /\ \E h \in Headers :
       srv' = [srv EXCEPT !.authorization = h, !.stage = "basicAuth", !.status = 0]
  /\ UNCHANGED <<env, now, input, app, rec, tts, ui, dev, timers, tasks, obs>>

BasicAuth ==
  /\ srv.stage = "basicAuth"
  /\ srv' = basicAuth(srv)
  /\ UNCHANGED <<env, now, input, app, rec, tts, ui, dev, timers, tasks, obs>>

\* express.static or a route of /api answers; the routes are the only
\* callers of the Claude, transcription and TTS services.
RoutesAnswer ==
  /\ srv.stage = "routes"
  /\ srv' = [srv EXCEPT !.stage = "answered", !.status = 200]
  /\ UNCHANGED <<env, now, input, app, rec, tts, ui, dev, timers, tasks, obs>>

NextServer == RequestArrives \/ BasicAuth \/ RoutesAnswer

StartServer ==
  /\ PageLoaded("desktop")
  /\ \E u \in Usernames, p \in Passwords : srv = Server(u, p)

SpecServer == StartServer /\ [][NextServer]_vars

\* What every build has: the clock, the continuations, the timer, the device.
Common ==
  \/ Tick
  \/ PermissionAnswered
  \/ Replied
  \/ Watchdog
  \/ DeviceStarted \/ DeviceResult \/ DeviceError \/ DeviceEnded

NextTouch ==
  \/ Common
  \/ TouchStart \/ TouchEnd
  \/ AudioUnlocked \/ Transcribed \/ Spoken

NextDesktop ==
  \/ Common
  \/ DesktopClick \/ DesktopKeyDown \/ DesktopKeyUp
  \/ AudioUnlocked \/ Transcribed \/ Spoken

NextPress ==
  \/ Common
  \/ ButtonDown \/ ButtonUp \/ ButtonLeave
  \/ SpaceDown \/ SpaceUp

NextPressAsync ==
  \/ Common
  \/ AsyncClick \/ AsyncDown \/ AsyncUp \/ AsyncLeave
  \/ SpaceDown \/ SpaceUp
  \/ Transcribed \/ Spoken

Next == NextTouch \/ NextDesktop \/ NextPress \/ NextPressAsync \/ NextServer

\* One specification for each build of the page, and one for any of them.
SpecTouch == Start("touch") /\ [][NextTouch]_vars
SpecDesktop == Start("desktop") /\ [][NextDesktop]_vars
SpecPress == Start("press") /\ [][NextPress]_vars
SpecPressAsync == Start("pressAsync") /\ [][NextPressAsync]_vars
Spec == Init /\ [][Next]_vars

\* ============================================================= properties
\* What a step did, read from the observations.
\* speechRecognition.stop() was called in this step.
StopRequested == obs.stopTick' # obs.stopTick

\* start() has been called and the device has not yet confirmed it: the
\* permission query is awaited, or recognition.start() was accepted and
\* onstart has not been delivered.
StartInFlight == BagIn(Task("permission", 0), tasks) \/ rec.isStarting

\* The controller's Starting: a session was accepted and is not yet Listening.
Starting ==
  /\ app.recordingRequested
  /\ ~app.isListening
  /\ ~rec.isRecording
  /\ StartInFlight

\* The controller holds a session open.
SessionOpen == app.recordingRequested \/ app.isListening

\* A pressStart and a pressEnd of the handlePressStart / handlePressEnd builds.
PressStart ==
  \/ ButtonDown
  \/ SpaceDown
  \/ AsyncDown
  \/ AsyncClick /\ ~SessionOpen

PressEnd ==
  \/ ButtonUp
  \/ ButtonLeave
  \/ SpaceUp
  \/ AsyncUp
  \/ AsyncClick /\ SessionOpen

\* The release of the press that started the session, no other press or
\* release having come between.
ReleaseOfStarter == obs.press = "starter" /\ obs.press' = "none"

\* ------------------------------------------------------------- C1
\* C1: recognition.start() is never issued while a capture lifecycle that was
\* started before has not yet ended.  (rejectedStarts counts the calls of
\* recognition.start() made while a lifecycle was open.)
C1_StartOnlyWhenNoLifecycleOpen == obs.rejectedStarts = 0

\* ------------------------------------------------------------- C2
\* C2: a stop requested after the session was accepted and before the device
\* confirmed the start does not reach the device at that moment and is
\* latched as a pending stop; and when the confirmation arrives with a stop
\* pending, the device stop is issued in that very step.
C2_EarlyStopIsLatched ==
  [][/\ (StopRequested /\ Starting)
          => (rec.pendingStop' /\ obs.devStops' = obs.devStops)
     /\ (DeviceStarted /\ rec.pendingStop)
          => obs.devStops' = obs.devStops + 1]_vars

\* ------------------------------------------------------------- C3
\* C3: when the watchdog fires on a device that was asked to stop and has
\* delivered no terminal callback, and force-aborts it, the controller is
\* Idle after that step: isListening and recordingRequested are both false.
C3_WatchdogReturnsControllerToIdle ==
  [][(Watchdog /\ dev.state = "stopping" /\ dev'.state = "aborting")
       => (~app'.isListening /\ ~app'.recordingRequested)]_vars

\* ------------------------------------------------------------- C4
\* C4: a watchdog timer that resets the wrapper's flags was armed by a stop()
\* of the capture lifecycle that is open when it fires, and a stop has
\* reached the device in that lifecycle.
C4_WatchdogActsOnItsOwnSession ==
  [][\A t \in BagToSet(timers) :
       (Watchdog /\ timers' = timers (-) SetToBag({t}) /\ rec' # rec)
         => (t.lc = dev.lifecycle /\ obs.devStops > 0)]_vars

\* ------------------------------------------------------------- C5
\* C5: in every capture lifecycle recognition.stop() is called at most once.
C5_AtMostOneDeviceStop == obs.devStops <= 1

\* ------------------------------------------------------------- C6
\* C6: on the release of the press that started an open session, a hold of
\* 300 ms or more stops the session (the stop reaches the device or is
\* latched for it) and a shorter hold requests no stop.
C6_HoldThreshold ==
  [][(ReleaseOfStarter /\ SessionOpen)
       => IF now - obs.pressedAt >= 300
          THEN rec.pendingStop' \/ obs.devStops' = obs.devStops + 1
          ELSE ~StopRequested]_vars

\* ------------------------------------------------------------- C7
\* A toggle-mode session: open, its first press released on the toggle path,
\* no press since.
ToggleSession ==
  /\ SessionOpen
  /\ ~app.isHoldMode
  /\ ~app.shouldStopOnRelease
  /\ obs.press = "none"

\* C7 as the specification states it: in a toggle-mode session the next
\* accepted pressStart requests the stop by itself.
C7_NextPressStartStops ==
  [][(PressStart /\ ToggleSession /\ ~app.isProcessing) => StopRequested]_vars

\* C7 as the code has it: in a toggle-mode session the next accepted
\* pressStart requests no stop and touches neither the wrapper nor the
\* device, it only sets shouldStopOnRelease; and a pressEnd that finds
\* shouldStopOnRelease set in an open session requests the stop and clears
\* the mark, whatever the hold duration.
C7_NextPressMarksReleaseStops ==
  [][/\ (PressStart /\ ToggleSession /\ ~app.isProcessing)
          => (app'.shouldStopOnRelease /\ ~StopRequested /\ rec' = rec /\ dev' = dev)
     /\ (PressEnd /\ SessionOpen /\ app.shouldStopOnRelease)
          => (StopRequested /\ ~app'.shouldStopOnRelease)]_vars

\* The second press of a toggle-mode session has been taken and the session
\* is still listening, no stop having reached the device.
C7_MarkedNotStopped ==
  /\ obs.press = "again"
  /\ app.shouldStopOnRelease
  /\ app.isListening
  /\ ~app.isHoldMode
  /\ dev.state = "active"
  /\ obs.devStops = 0

\* ------------------------------------------------------------- C8
\* C8 as the specification states it: a pressStart received in Starting is
\* ignored: no second start, shouldStopOnRelease stays false, the recorded
\* start time stays what it was.
C8_PressStartInStartingIgnored ==
  [][(PressStart /\ Starting /\ ~app.isProcessing /\ ~app.shouldStopOnRelease)
       => /\ obs.attempts' = obs.attempts
          /\ tasks' = tasks
          /\ dev' = dev
          /\ ~app'.shouldStopOnRelease
          /\ app'.pressStartTime = app.pressStartTime]_vars

\* C8 as the code has it: a pressStart received in Starting asks for no
\* second start (no start() call, wrapper and device untouched), but it sets
\* shouldStopOnRelease and records the time of this press as pressStartTime.
C8_PressStartInStartingMarks ==
  [][(PressStart /\ Starting /\ ~app.isProcessing)
       => /\ obs.attempts' = obs.attempts
          /\ tasks' = tasks
          /\ dev' = dev
          /\ rec' = rec
          /\ app'.shouldStopOnRelease
          /\ app'.pressStartTime = now]_vars

\* A second press was taken in Starting, later than the press that started
\* the only session asked for: the session is marked and its start time is
\* that of the second press.
C8_SecondPressInStarting ==
  /\ Starting
  /\ obs.press = "again"
  /\ obs.attempts = 1
  /\ app.shouldStopOnRelease
  /\ app.pressStartTime = now
  /\ now = 1050

\* ------------------------------------------------------------- C9
\* C9: in a capture lifecycle in which a stop was latched while the device
\* was starting, isListening is never true and the status "Listening..." is
\* never shown.  (latched and listeningShown are about the open lifecycle:
\* both are cleared when recognition.start() is accepted.)
C9_LatchedNeverListening ==
  obs.latched => (~app.isListening /\ ~obs.listeningShown)

\* ------------------------------------------------------------- C10
\* C10: when the press that started a session is released 50 ms later and
\* the start is still unconfirmed, the controller is Idle after the release
\* (recordingRequested false), no stop was requested and "Listening..." was
\* not shown.
C10_EarlyReleaseReturnsToIdle ==
  [][(ReleaseOfStarter /\ Starting /\ now - obs.pressedAt = 50)
       => /\ ~app'.recordingRequested
          /\ ~StopRequested
          /\ ~obs.listeningShown']_vars

\* ------------------------------------------------------------- C11
\* The controller is Idle: no session is open and no turn is processed.
Idle == ~app.recordingRequested /\ ~app.isListening /\ ~app.isProcessing

\* A terminal transition of a capture: the device's end or error callback,
\* or the timer of stop().
Terminal == DeviceEnded \/ DeviceError \/ Watchdog

\* C11: when a terminal transition leaves the controller Idle with no press
\* in progress, every transient flag is clear: the wrapper's isStarting,
\* isRecording and pendingStop, and appState's shouldStopOnRelease,
\* isHoldMode and pressStartTime.
C11_FlagsClearInIdle ==
  [][(Terminal /\ Idle' /\ obs.press' = "none")
       => /\ ~rec.isStarting' /\ ~rec.isRecording' /\ ~rec.pendingStop'
          /\ ~app.shouldStopOnRelease'
          /\ ~app.isHoldMode'
          /\ app.pressStartTime' = NULL]_vars

\* ------------------------------------------------------------- C12
\* The status texts of onError (app.js 764-785 and 163-187).
ErrorStatuses ==
  {"Error: No speech detected",
   "Error: No speech detected - speak immediately after pressing",
   "Error: No microphone found",
   "Error: Microphone permission denied", "Error: Recording aborted",
   "Error: Speech recognition failed"}

\* C12: after any error callback of the device the pending-stop and toggle
\* flags are clear, the controller is Idle, the status shown is the error's,
\* and the step has asked for no new start (no start() call is left
\* awaiting, no new lifecycle has begun).
C12_ErrorAbortsAndIsSurfaced ==
  [][DeviceError
       => /\ ~rec.pendingStop' /\ ~rec.isStarting' /\ ~rec.isRecording'
          /\ ~app.shouldStopOnRelease'
          /\ Idle'
          /\ ui.status' \in ErrorStatuses
          /\ tasks' = tasks
          /\ dev.lifecycle' = dev.lifecycle]_vars

\* ------------------------------------------------------------- C13
\* The status texts for a capture that gave nothing.
EmptyCaptureStatuses ==
  {"No audio captured. Try again.", "No speech detected. Try again."}

\* A turn is under way: some step of the pipeline is awaited.
PipelineRunning ==
  \E t \in BagToSet(tasks) : t.k \in {"transcribe", "chat", "speak"}

\* C13: when a capture that was listening ends with no transcript collected,
\* the history is unchanged, no pipeline step is called, the status shown is
\* an empty-capture status, the button has left the listening state and the
\* controller is Idle.
C13_EmptyCaptureShownAndIdle ==
  [][(DeviceEnded /\ app.isListening /\ rec.collectedTranscript = 0)
       => /\ app.conversationHistory' = app.conversationHistory
          /\ tasks' = tasks
          /\ ui.status' \in EmptyCaptureStatuses
          /\ ui.button' # "listening"
          /\ Idle']_vars

\* ------------------------------------------------------------- C14
\* The places of the history that hold a turn of `role` with `content`.  (A
\* capture's text is the number of its lifecycle, and the reply to a message
\* carries the message's text, so a turn tells which capture it belongs to.)
Turns(history, role, content) ==
  {i \in 1..Len(history) : history[i] = [role |-> role, content |-> content]}

\* C14: when the chat step of a capture's turn succeeds, the history has
\* grown by exactly that capture's user turn followed by its assistant turn:
\* the assistant turn is appended right after the user turn of the capture.
C14_TurnIsUserThenAssistant ==
  [][\A t \in BagToSet(tasks) :
       (/\ Replied
        /\ t.k = "chat"
        /\ tasks' = tasks (-) SetToBag({t})
        /\ Len(app.conversationHistory') > Len(app.conversationHistory))
       => /\ app.conversationHistory' =
               Append(app.conversationHistory,
                      [role |-> "assistant", content |-> t.text])
          /\ app.conversationHistory[Len(app.conversationHistory)] =
               [role |-> "user", content |-> t.text]]_vars

\* What does hold of each capture (C14, counted per capture): when the chat
\* step of a capture's turn succeeds, the step appends the assistant turn,
\* and the history then holds exactly one user turn and exactly one
\* assistant turn of that capture, the user turn first; no other step of a
\* pipeline for that capture is left running.
C14_OneTurnPerCapture ==
  [][\A t \in BagToSet(tasks) :
       (/\ Replied
        /\ t.k = "chat"
        /\ tasks' = tasks (-) SetToBag({t})
        /\ Len(app.conversationHistory') > Len(app.conversationHistory))
       => LET h == app.conversationHistory'
          IN /\ h = Append(app.conversationHistory,
                           [role |-> "assistant", content |-> t.text])
             /\ Cardinality(Turns(h, "user", t.text)) = 1
             /\ Cardinality(Turns(h, "assistant", t.text)) = 1
             /\ \A i \in Turns(h, "user", t.text) : i < Len(h)
             /\ \A u \in BagToSet(tasks') : u.text # t.text]_vars

\* A session that a release stopped 800 ms after its first press has ended
\* with a capture and its turn is done: the history is the user turn and the
\* assistant turn of that capture and the controller is Idle.
C14_TurnDone ==
  /\ app.conversationHistory = << [role |-> "user", content |-> 1],
                                  [role |-> "assistant", content |-> 1] >>
  /\ Idle
  /\ tasks = EmptyBag
  /\ dev.state = "idle"
  /\ obs.press = "none"
  /\ obs.devStops = 1
  /\ now = 1800

\* ------------------------------------------------------------- C15
\* The user turns of the history: on the press-button page every delivery
\* through onResult of a non-empty capture appends one (app.js 752-755).
UserTurns(history) == SelectSeq(history, LAMBDA e : e.role = "user")

\* C15: the wrapper hands a capture to onResult only when its lifecycle
\* ends, and the text it hands over was collected in the lifecycle that is
\* ending, was not handed over before, and is forgotten by the wrapper in
\* the same step; no other step delivers anything.
C15_OwnCaptureDeliveredOnce ==
  [][/\ (DeviceEnded /\ rec.collectedTranscript # 0)
          => /\ rec.collectedTranscript = dev.lifecycle
             /\ Turns(app.conversationHistory, "user", rec.collectedTranscript) = {}
             /\ UserTurns(app.conversationHistory') =
                  Append(UserTurns(app.conversationHistory),
                         [role |-> "user", content |-> dev.lifecycle])
             /\ rec.collectedTranscript' = 0
     /\ ~(DeviceEnded /\ rec.collectedTranscript # 0)
          => UserTurns(app.conversationHistory') = UserTurns(app.conversationHistory)]_vars

\* Two lifecycles have each collected text and ended, and each capture was
\* delivered once, the later one after the earlier one.
C15_TwoCapturesDelivered ==
  /\ UserTurns(app.conversationHistory) = << [role |-> "user", content |-> 1],
                                             [role |-> "user", content |-> 2] >>
  /\ dev.lifecycle = 2
  /\ dev.state = "idle"
  /\ rec.collectedTranscript = 0

\* ------------------------------------------------------------- C16
IsPrefix(s, t) == Len(s) <= Len(t) /\ SubSeq(t, 1, Len(s)) = s

\* C16: the conversation history is append-only: no step removes, reorders
\* or rewrites an entry, so the history before a step is a prefix of the
\* history after it (and so is every earlier history).
C16_HistoryAppendOnly ==
  [][IsPrefix(app.conversationHistory, app.conversationHistory')]_vars

\* Two sessions have passed, the chat step of the first one failed and the
\* turn of the second one succeeded: the history is the user turn of the
\* first, then the user turn and the assistant turn of the second.
C16_HistoryAfterFailureAndSuccess ==
  /\ app.conversationHistory = << [role |-> "user", content |-> 1],
                                  [role |-> "user", content |-> 2],
                                  [role |-> "assistant", content |-> 2] >>
  /\ tasks = EmptyBag
  /\ Idle

\* ------------------------------------------------------------- C17
\* The step is the catch block of processUserMessage after the chat call of
\* turn t was rejected: the apology bubble is put on the screen.
ChatFailed(t) ==
  /\ Replied
  /\ t.k = "chat"
  /\ tasks' = tasks (-) SetToBag({t})
  /\ ui.conversation' = Append(ui.conversation,
                               [role |-> "assistant", content |-> 0, apology |-> TRUE])

\* C17 as stated: when the chat step fails the user turn stays in the
\* history and an error turn is appended to the history in the place of the
\* reply, so the history grows by one entry that is not a user entry.
C17_FailureAppendsErrorTurn ==
  [][\A t \in BagToSet(tasks) :
       ChatFailed(t)
       => /\ Turns(app.conversationHistory', "user", t.text) # {}
          /\ Len(app.conversationHistory') = Len(app.conversationHistory) + 1
          /\ app.conversationHistory'[Len(app.conversationHistory')].role # "user"]_vars

\* C17, amended: when the chat step fails the user turn stays in the history
\* and nothing is appended to the history; the error turn is only a bubble
\* on the screen, so the turn contributes its one user entry and no other.
C17_FailureKeepsUserTurnOnly ==
  [][\A t \in BagToSet(tasks) :
       ChatFailed(t)
       => /\ app.conversationHistory' = app.conversationHistory
          /\ Cardinality(Turns(app.conversationHistory', "user", t.text)) = 1
          /\ Turns(app.conversationHistory', "assistant", t.text) = {}]_vars

\* The chat step of the first turn has failed: the screen shows the user's
\* message and the apology, the history holds the user turn alone.
C17_ApologyOnScreenOnly ==
  /\ ui.conversation = << [role |-> "user", content |-> 1, apology |-> FALSE],
                          [role |-> "assistant", content |-> 0, apology |-> TRUE] >>
  /\ app.conversationHistory = << [role |-> "user", content |-> 1] >>
  /\ Idle

\* ------------------------------------------------------------- C18
\* The touch page with calls that settle: every awaited transcription, chat
\* and speech call is eventually answered, with success or with failure.
FairSpecTouch ==
  /\ SpecTouch
  /\ WF_vars(Transcribed)
  /\ WF_vars(Replied)
  /\ WF_vars(Spoken)

\* The controller is released: Idle, and the trigger control is enabled.
Released == Idle /\ ~ui.disabled

\* C18: every pipeline turn terminates and releases the controller: once
\* processUserMessage has set isProcessing, then whether the chat call and
\* the speech step succeed or fail, the controller is eventually Idle again
\* with isProcessing cleared and the trigger control enabled.
C18_TurnReleasesController == app.isProcessing ~> Released

\* A turn whose chat call failed has ended: nothing of a pipeline is pending
\* and the controller is released after having been disabled for the turn.
C18_ReleasedAfterFailedTurn ==
  /\ Released
  /\ tasks = EmptyBag
  /\ Len(ui.conversation) = 2
  /\ ui.conversation[2].apology
  /\ ui.button = "idle"

\* ------------------------------------------------------------- C19
\* C19: a failure of the speech step never fails the turn.  When the awaited
\* speak() of turn t fails (refused by the autoplay policy, request failed,
\* audio never unlocked), the step that follows
\* leaves the assistant turn in the history and its bubble on the screen,
\* adds no error bubble, and returns the controller to Idle.
C19_SpeechFailureKeepsTurn ==
  [][\A t \in BagToSet(tasks) :
       (/\ Spoken
        /\ t.k = "speak"
        /\ tasks' = tasks (-) SetToBag({t})
        /\ obs.spoke' = "rejected")
       => /\ app.conversationHistory' = app.conversationHistory
          /\ Turns(app.conversationHistory', "assistant", t.text) # {}
          /\ ui.conversation' = ui.conversation
          /\ \E i \in 1..Len(ui.conversation') :
               ui.conversation'[i] = [role |-> "assistant", content |-> t.text,
                                      apology |-> FALSE]
          /\ Idle']_vars

\* A turn has ended on a page whose audio was never unlocked, so that the
\* playback of the reply was refused: the reply is in the history and on the
\* screen, no apology is shown, and the controller is Idle.
C19_TurnDoneWithoutAudio ==
  /\ ~tts.audioUnlocked
  /\ obs.spoke = "rejected"
  /\ app.conversationHistory = << [role |-> "user", content |-> 1],
                                  [role |-> "assistant", content |-> 1] >>
  /\ ui.conversation = << [role |-> "user", content |-> 1, apology |-> FALSE],
                          [role |-> "assistant", content |-> 1, apology |-> FALSE] >>
  /\ ui.status = "Ready - Click to toggle"
  /\ tasks = EmptyBag
  /\ Idle

\* ------------------------------------------------------------- C20
\* C20: the language passed to the speech step of a turn is the language
\* that the transcription step of the same turn detected: when the chat step
\* of turn t is followed by the call of speak(), the language handed to
\* speak() is the one stored for the turn when its transcription came back.
C20_SpeechInLanguageOfTurn ==
  [][\A t \in BagToSet(tasks), u \in BagToSet(tasks') :
       (/\ Replied
        /\ t.k = "chat"
        /\ u.k = "speak"
        /\ u.text = t.text
        /\ tasks' = (tasks (-) SetToBag({t})) (+) SetToBag({u}))
       => u.lang = t.lang]_vars

\* ------------------------------------------------------------- C21
\* C21: when silent mode is on at the time the reply of turn t is received,
\* speak() is not called (no speech call is awaited after the step), and the
\* assistant turn is still appended to the history and shown on the screen.
C21_SilentModeSkipsSpeech ==
  [][\A t \in BagToSet(tasks) :
       (/\ Replied
        /\ t.k = "chat"
        /\ CopiesIn(t, tasks') < CopiesIn(t, tasks)
        /\ Len(app.conversationHistory') > Len(app.conversationHistory)
        /\ obs.silent')
       => /\ tasks' = tasks (-) SetToBag({t})
          /\ \A u \in BagToSet(tasks') : ~(u.k = "speak" /\ u.text = t.text)
          /\ app.conversationHistory' =
               Append(app.conversationHistory,
                      [role |-> "assistant", content |-> t.text])
          /\ ui.conversation' =
               Append(ui.conversation,
                      [role |-> "assistant", content |-> t.text, apology |-> FALSE])]_vars

\* A turn has ended in silent mode: the reply is in the history and on the
\* screen, nothing was spoken in the run, and the controller is Idle.
C21_SilentTurnDone ==
  /\ obs.silent
  /\ obs.spoke = "none"
  /\ app.conversationHistory = << [role |-> "user", content |-> 1],
                                  [role |-> "assistant", content |-> 1] >>
  /\ ui.conversation[2] = [role |-> "assistant", content |-> 1, apology |-> FALSE]
  /\ tasks = EmptyBag
  /\ ui.status = "Ready - Click to toggle"

\* ------------------------------------------------------------- C22
\* The unlock probes in progress: each awaited play() of the near-silent
\* clip of unlockAudioPlayback is one pending "unlock" call.
ProbesInProgress(b) == CopiesIn(Task("unlock", 0), b)

\* C22: the unlock probe is executed exactly once: after the first call of
\* unlockAudioPlayback (the first start handler of the run) no step plays
\* the near-silent clip again, whether the first probe is still in progress,
\* has succeeded or has failed.
C22_UnlockProbeOnce ==
  [][obs.attempts >= 1 => ProbesInProgress(tasks') <= ProbesInProgress(tasks)]_vars

\* ------------------------------------------------------------- C23
\* The first accepted press start of the touch page.
FirstPressStart == TouchStart /\ obs.attempts = 0

GestureOpen == obs.press # "none"

\* C24: one gesture produces one pressStart: a raw down event of the button
\* (mousedown, pointerdown, touchstart) that arrives while the pressEnd of
\* the gesture has not been observed is suppressed, so it changes nothing
\* in the controller, the wrapper or the device.
C24_DuplicateDownSuppressed ==
  [][(ButtonDown /\ GestureOpen) => UNCHANGED <<app, rec, dev, tasks, timers>>]_vars

\* ------------------------------------------------------------- C25
\* C25: while the key is held, repeated key-down events produce no further
\* pressStart.  A key-down reaches the controller only when the key is not
\* marked as pressed, and it marks it; the mark is taken off by the key-up
\* alone, so between two key-downs that reach the controller there is a
\* key-up.
C25_KeyRepeatIgnored ==
  [][/\ SpaceDown => (~app.spaceKeyPressed /\ app.spaceKeyPressed')
     /\ (app.spaceKeyPressed /\ ~app.spaceKeyPressed') => SpaceUp]_vars

\* The key that started the session is still held 800 ms later and the
\* session is listening: the key-downs repeated since have started nothing.
C25_KeyHeldOneSession ==
  /\ app.spaceKeyPressed
  /\ obs.press = "starter"
  /\ obs.attempts = 1
  /\ app.isListening
  /\ ~app.shouldStopOnRelease
  /\ now = 1800

\* ------------------------------------------------------------- C26
\* The condition under which the mouseleave listener calls handlePressEnd.
LeaveEndsPress == app.isHoldMode \/ app.recordingRequested

\* C26: a pointer that leaves the button while a press is in progress is
\* the pressEnd of that gesture, so whenever a press is in progress in an
\* open session the mouseleave listener is ready to call handlePressEnd; and
\* a pointer that leaves while no press is in progress requests no stop and
\* changes nothing of the session.
C26_LeaveIsPressEnd ==
  [][/\ (GestureOpen' /\ SessionOpen' /\ ~ui.disabled') => LeaveEndsPress'
     /\ (ButtonLeave /\ ~GestureOpen)
          => /\ obs.stopTick' = obs.stopTick
             /\ UNCHANGED <<rec, dev, tasks, timers>>
             /\ app.recordingRequested' = app.recordingRequested
             /\ app.isListening' = app.isListening]_vars

\* ------------------------------------------------------------- C27
\* The errors recognition.onerror hands to the controller.
Errors == {"no-speech", "audio-capture", "not-allowed", "network", "aborted"}

\* The step is the end of a start() that failed: the permission query came
\* back denied, or recognition.start() threw, and no lifecycle has begun.
FailedStart == PermissionAnswered /\ dev.lifecycle' = dev.lifecycle

\* C27 as stated: every failed start is reported to the controller through
\* the onError callback, so the step leaves the controller and the screen
\* as onError leaves them for one of the errors.
C27_FailedStartCallsOnError ==
  [][FailedStart
       => \E error \in Errors :
            /\ app' = onError(W, error).app
            /\ ui' = onError(W, error).ui]_vars

\* C27, amended: start() does not throw and does not call onError: a failed
\* start resolves false, leaving the wrapper no more started than it was,
\* and it is the caller that awaits start() which shows 'Failed to start - check
\* microphone', withdraws the request and puts the button back to idle.
C27_FailedStartResolvesFalse ==
  [][FailedStart
       => /\ rec.isStarting' => rec.isStarting
          /\ rec.isRecording' = rec.isRecording
          /\ ui.status' = "Failed to start - check microphone"
          /\ ui.button' = "idle"
          /\ ~app.recordingRequested'
          /\ app.isListening' = app.isListening
          /\ app.isProcessing' = app.isProcessing
          /\ \A error \in Errors : ui' # onError(W, error).ui]_vars

\* A start has failed at the first press: nothing was started on the
\* device and the page shows the failure text of the caller.
C27_StartFailedShown ==
  /\ ui.status = "Failed to start - check microphone"
  /\ dev.lifecycle = 0
  /\ obs.attempts = 1
  /\ tasks = EmptyBag
  /\ ~app.recordingRequested

\* ------------------------------------------------------------- C28
\* recognition.onerror has run in the lifecycle that is on the device: it
\* has called onError, and the device has still to fire its end event.
ErrorDelivered == dev.state = "ending"

\* The step is a recognition.onend that calls onResult before its onEnd.
ResultDelivered == DeviceEnded /\ rec.collectedTranscript # 0

\* C28: the callbacks of one session come in order: onStart only from the
\* onstart of a lifecycle that has delivered nothing yet, onEnd last (the
\* lifecycle is over after it), and never both onError and onResult: the
\* onend that follows an onerror delivers no result.
C28_CallbackOrder ==
  [][/\ DeviceStarted => (dev.state = "starting" /\ ~ErrorDelivered')
     /\ DeviceEnded => dev.state' = "idle"
     /\ ResultDelivered => ~ErrorDelivered]_vars

\* ------------------------------------------------------------- C29
\* The finger is off the button: the touchend or touchcancel of the last
\* accepted touchstart has been handled (or no touchstart was accepted yet).
FingerLifted == ~input.touchActive

\* The device is recording and no stop or abort of it has been issued.
RecordingOpen == dev.state = "active"

\* C29: on a touch device a recording never stays open after the finger is
\* lifted: the release stops it at once, and a release that arrives while
\* the audio unlock or the start is pending stops it in the step in which
\* the start completes.
C29_NoRecordingAfterRelease == FingerLifted => ~RecordingOpen

\* ------------------------------------------------------------- C30
\* C30: while a pipeline turn is being processed (isProcessing) the trigger
\* control is disabled, and whenever the controller is Idle the control is
\* enabled.
C30_DisabledIffProcessing ==
  /\ app.isProcessing => ui.disabled
  /\ Idle => ~ui.disabled

\* ------------------------------------------------------------- C31
\* The step is the end of onResult for capture t whose transcription was
\* rejected or came back without a transcript: the awaited call is over and
\* no chat call was made for the capture.
TranscriptionFailed(t) ==
  /\ Transcribed
  /\ t.k = "transcribe"
  /\ tasks' = tasks (-) SetToBag({t})

\* The status texts of onResult for a transcription that gave nothing.
TranscriptionStatuses ==
  {"Transcription error", "No speech detected. Try again."}

\* C31: when the transcription step of a capture fails, nothing is appended
\* to the conversation history, the chat step is not called for the capture,
\* the status shown is the failure's, and the controller is Idle.
C31_TranscriptionFailureShown ==
  [][\A t \in BagToSet(tasks) :
       TranscriptionFailed(t)
         => /\ app.conversationHistory' = app.conversationHistory
            /\ \A u \in BagToSet(tasks') : u.k = "chat" => CopiesIn(u, tasks') = CopiesIn(u, tasks)
            /\ ui.status' \in TranscriptionStatuses
            /\ Idle']_vars

\* ------------------------------------------------------------- C32
\* The step is the onstart that finds a stop latched and hands it to the
\* device.
LatchedStopIssued == DeviceStarted /\ rec.pendingStop

\* The timer of a stop() is pending for the lifecycle that is on the device.
WatchdogArmed(b) == \E t \in BagToSet(b) : t.lc = dev.lifecycle

\* C32: a stop that was latched while starting is covered by the watchdog
\* when it is issued at the start confirmation: the step that issues it
\* leaves a timer pending for the session, as stop() does for every stop it
\* issues itself.
C32_LatchedStopHasWatchdog ==
  [][/\ LatchedStopIssued => WatchdogArmed(timers')
     /\ (StopRequested /\ obs.devStops' > obs.devStops) => WatchdogArmed(timers')]_vars

\* ------------------------------------------------------------- C33
\* C33: when start() has resolved false the controller holds no session
\* open (recordingRequested and isListening are clear), so that the next
\* pressStart begins a new session and is not taken for a toggle-off.
C33_FailedStartClosesSession == [][FailedStart => ~SessionOpen']_vars

\* ------------------------------------------------------------- C34
\* The step is a press input of the page: button, touch or keyboard.
PressInput ==
  \/ TouchStart
  \/ DesktopClick \/ DesktopKeyDown
  \/ ButtonDown \/ SpaceDown
  \/ AsyncDown \/ AsyncClick

\* The step calls the wrapper's start() and start() goes on to its
\* permission query, after which it issues recognition.start().
StartCalled ==
  CopiesIn(Task("permission", 0), tasks') > CopiesIn(Task("permission", 0), tasks)

\* C34: while a pipeline turn is in flight, from the delivery of the capture
\* (the transcription step included) to the turn's final reset, a press
\* input starts no capture: it does not call start().
C34_NoStartDuringTurn == [][(PressInput /\ PipelineRunning) => ~StartCalled]_vars

\* ------------------------------------------------------------- C35
\* The wrapper has a capture open: it is starting or recording.
CaptureOpen == rec.isStarting \/ rec.isRecording

\* C35: no orphaned capture: whenever the controller is Idle
\* (recordingRequested, isListening and isProcessing all false) the wrapper
\* is neither starting nor recording.
C35_NoOrphanedCapture == Idle => ~CaptureOpen

\* ------------------------------------------------------------- C36
\* The roles of history h alternate, starting with user.
Alternates(h) ==
  \A i \in 1..Len(h) : h[i].role = IF i % 2 = 1 THEN "user" ELSE "assistant"

\* C36: after any sequence of turns, failed chat steps included, the
\* conversation history alternates user, assistant, user, assistant, ...:
\* it never holds two consecutive user entries.
C36_HistoryAlternates == Alternates(app.conversationHistory)

\* ------------------------------------------------------------- C37
\* sendMessage, claudeService.js 14-27: the messages array built for the
\* chat model from the request's message and conversationHistory fields.
sendMessage(message, conversationHistory) ==
  conversationHistory \o <<[role |-> "user", content |-> message]>>

\* The step calls the chat step for message u: processUserMessage has been
\* entered and awaits API.sendMessageToClaude.
ChatCalled(u) == u.k = "chat" /\ CopiesIn(u, tasks') > CopiesIn(u, tasks)

\* The list sent to the chat model by the step that calls the chat step for
\* u: the request is serialised in that step, from the message and from
\* appState.conversationHistory as onResult has left it.
MessagesSent(u) == sendMessage(u.text, app.conversationHistory')

\* The number of entries of list h that are the user message `message`.
Occurrences(h, message) ==
  Cardinality({i \in 1..Len(h) : h[i] = [role |-> "user", content |-> message]})

\* C37: the list sent to the chat model for a turn is the history as it was
\* before the turn followed by the new user message, which occurs in the
\* list exactly once.
C37_NewMessageSentOnce ==
  [][\A u \in BagToSet(tasks') :
       ChatCalled(u)
         => /\ MessagesSent(u) = Append(app.conversationHistory,
                                        [role |-> "user", content |-> u.text])
            /\ Occurrences(MessagesSent(u), u.text) = 1]_vars

\* ------------------------------------------------------------- C38
\* Both credentials are configured: basicAuth does not skip the check.
AuthConfigured == srv.AUTH_USERNAME # << >> /\ srv.AUTH_PASSWORD # << >>

\* The username and password a header carries: the decoded text up to its
\* first separator, and all of the text after that separator.
CarriedUsername(h) == split(fromBase64(h.payload))[1]
CarriedPassword(h) ==
  LET text == fromBase64(h.payload)
      name == CarriedUsername(h)
  IN SubSeq(text, Len(name) + 2, Len(text))

\* The header carries the configured username and password.
Authorized(h) ==
  /\ h.given /\ h.token
  /\ Len(fromBase64(h.payload)) > Len(CarriedUsername(h))
  /\ CarriedUsername(h) = srv.AUTH_USERNAME
  /\ CarriedPassword(h) = srv.AUTH_PASSWORD

\* The request has reached the static files or the /api routes.
ReachedRoutes == srv.stage = "routes" \/ srv.status = 200

\* C38: with AUTH_USERNAME and AUTH_PASSWORD both configured, a request
\* reaches the static files or the /api routes only if its Authorization
\* header carries exactly the configured username and password; any other
\* request is answered without reaching them.
C38_OnlyAuthorizedReachRoutes ==
  (AuthConfigured /\ ReachedRoutes) => Authorized(srv.authorization)

\* What basicAuth does ensure: a request that went through carries the
\* configured username as its first field and the configured password as
\* its second.
C38_FirstTwoFieldsMatch ==
  (AuthConfigured /\ ReachedRoutes)
    => LET auth == split(fromBase64(srv.authorization.payload))
       IN /\ srv.authorization.given /\ srv.authorization.token
          /\ Len(auth) >= 2
          /\ auth[1] = srv.AUTH_USERNAME
          /\ auth[2] = srv.AUTH_PASSWORD

====
